---- MODULE Spec2Model ----
(***************************************************************************)
(* Model of the inventory commands of inventario-cappellettoshop           *)
(* (src-tauri/src/inventory/mod.rs): the Shopify inventory levels and the  *)
(* product status are the remote state; each command is a sequence of      *)
(* remote calls, every one of which can succeed or fail.                   *)
(***************************************************************************)
EXTENDS Integers, Sequences, FiniteSets, TLC

(* ------------------------------ bounds --------------------------------- *)
\* quantities stay within -MaxNeg .. MaxQty (commands are not started beyond)
MaxQty == 2
MaxNeg == 1
\* number of distinct error texts a failing remote call can report
NumErrTexts == 2
\* the product listing has 1..MaxPages pages of 0..MaxPageSize items each
MaxPages == 3
MaxPageSize == 2
\* the catalog a scan fetches has 0..MaxProducts products
MaxProducts == 2
\* adjust_inventory is called with a list of 0..MaxUpdates updates
MaxUpdates == 2

(* ----------------------------- the world ------------------------------- *)
\* location/mod.rs LOCATIONS: (name, id)
LOCATIONS == << <<"Treviso", "3708157983">>, <<"Mogliano", "31985336425">> >>

LocationIds == { LOCATIONS[i][2] : i \in 1..Len(LOCATIONS) }

\* display name of a location id (the caller passes both)
LocName(id) == LOCATIONS[CHOOSE i \in 1..Len(LOCATIONS) : LOCATIONS[i][2] = id][1]

\* the one product of the model and the inventory items of its variants
ProductId == "123456"
InventoryItems == {"item_S", "item_M"}
VariantTitle(item) == IF item = "item_S" THEN "Size S" ELSE "Size M"

AllErrTexts == <<"rate limited", "network error", "API timeout">>
ErrTexts == { AllErrTexts[i] : i \in 1..(IF NumErrTexts < 3 THEN NumErrTexts ELSE 3) }

VARIABLES
  qty,             \* remote: inventory level of each (item, location id)
  productStatus,   \* remote: status of the product, "active" or "draft"
  logs,            \* remote: audit records created by the running command
  pc,              \* position of the running command ("idle" when none)
  req,             \* arguments of the running command
  pre,             \* qty when the running command started
  pre_status,      \* productStatus when the running command started
  calls,           \* remote calls the running command has issued, in order
  to_err,          \* transfer: error `e` of the destination increment
  status_changed,  \* local status_changed ("none" for None)
  current_product_status, \* local current_product_status ("none" for None)
  had_zero_inventory,     \* undo: result of the check made before the adjust
  result           \* value returned by the command ("pending" field while running)

\* state of the catalog fetch (stock/mod.rs fetch_all_products_concurrent)
VARIABLES
  server_pages,    \* remote: the pages of the product listing, in cursor order
  fetch_pc,        \* position of the fetch: "idle", "loop" or "done"
  all_products,    \* local all_products
  page_info,       \* local page_info (None or the cursor of the next page)
  fetch_requests,  \* page requests issued so far, in order, with their responses
  fetch_result     \* value returned by the fetch

\* state of the scan (stock/mod.rs scan_and_update_products)
VARIABLES
  catalog,         \* the products the fetch step yields
  dry_run,         \* argument dry_run
  scan_pc,         \* position of the scan
  products_with_no_stock, \* local products_with_no_stock
  index,           \* update_products_to_draft: position in the candidate list
  update_results,  \* update_products_to_draft: local results
  status_requests, \* status-update requests issued so far, in order
  scan_result      \* value returned by the scan

\* state of the stock_manager process (bin/stock_manager.rs main)
VARIABLES
  config_ok,       \* AppConfig::from_env() finds the required settings
  help,            \* --help / -h is among the arguments
  exit_code        \* exit status of the process, None while it runs

\* state of the persisted location (location/mod.rs)
VARIABLES
  location_file,   \* locationCappelletto.json: None, or Some(its text)
  set_pc,          \* position of set_app_location
  set_location,    \* argument location of set_app_location
  set_old,         \* text of the file when set_app_location was called
  set_result,      \* value returned by set_app_location
  get_pc,          \* position of get_app_location
  get_content,     \* local content of get_app_location
  get_during_set,  \* the file was read while set_app_location was replacing it
  get_result       \* value returned by get_app_location

locVars == <<location_file, set_pc, set_location, set_old, set_result,
             get_pc, get_content, get_during_set, get_result>>

\* state of a second inventory command running at the same time
VARIABLES
  other_pc,        \* position of the second command
  other_req,       \* its arguments
  other_calls      \* the checks and status updates it has made so far, in order

concVars == <<other_pc, other_req, other_calls>>

invVars == <<qty, productStatus, logs, pc, req, pre, pre_status, calls, to_err,
             status_changed, current_product_status, had_zero_inventory, result>>

fetchVars == <<server_pages, fetch_pc, all_products, page_info, fetch_requests,
               fetch_result>>

stockVars == <<catalog, dry_run, scan_pc, products_with_no_stock, index,
               update_results, status_requests, scan_result,
               config_ok, help, exit_code>>

vars == <<invVars, fetchVars, stockVars, locVars, concVars>>

\* Option<T>: None is the empty sequence, Some(x) the one-element sequence
None == <<>>

Some(x) == <<x>>

\* the fetch has not returned
NoFetchResult == [pending |-> TRUE, ok |-> FALSE, products |-> <<>>, err |-> <<>>]

\* Ok(all_products)
FetchOk(products) == [pending |-> FALSE, ok |-> TRUE, products |-> products, err |-> <<>>]

\* Err(e): an error carries no products
FetchErr(e) == [pending |-> FALSE, ok |-> FALSE, products |-> <<>>, err |-> e]

\* the scan has not returned
NoScanResult ==
  [pending |-> TRUE, ok |-> FALSE, err |-> <<>>, products_found |-> <<>>,
   update_results |-> <<>>,
   summary |-> [total_found |-> 0, excluded_count |-> 0, eligible_count |-> 0,
                successful_updates |-> 0, failed_updates |-> 0]]

\* no fetch is running
FetchIdle ==
  /\ server_pages = <<>>
  /\ fetch_pc = "idle"
  /\ all_products = <<>>
  /\ page_info = None
  /\ fetch_requests = <<>>
  /\ fetch_result = NoFetchResult

\* a command of the location module has not returned
NoLocResult == [pending |-> TRUE, ok |-> FALSE, value |-> "", err |-> <<>>]

\* Ok(value)
LocOk(v) == [pending |-> FALSE, ok |-> TRUE, value |-> v, err |-> <<>>]

\* Err(e)
LocErr(e) == [pending |-> FALSE, ok |-> FALSE, value |-> "", err |-> e]

\* no command of the location module is running and no location is stored
LocIdle ==
  /\ location_file = None
  /\ set_pc = "idle"
  /\ set_location = ""
  /\ set_old = None
  /\ set_result = NoLocResult
  /\ get_pc = "idle"
  /\ get_content = <<>>
  /\ get_during_set = FALSE
  /\ get_result = NoLocResult

\* no second inventory command is running
ConcIdle ==
  /\ other_pc = "idle"
  /\ other_req = [op |-> "none", inventory_item_id |-> "", location_id |-> ""]
  /\ other_calls = <<>>

\* no scan is running
StockIdle ==
  /\ catalog = <<>>
  /\ dry_run = FALSE
  /\ scan_pc = "idle"
  /\ products_with_no_stock = <<>>
  /\ index = 0
  /\ update_results = <<>>
  /\ status_requests = <<>>
  /\ scan_result = NoScanResult
  /\ config_ok = TRUE
  /\ help = FALSE
  /\ exit_code = None

(* ----------------------------- messages -------------------------------- *)
\* Messages are sequences of text fragments: format!() is concatenation.
Contains(msg, part) ==
  \E i \in 0..(Len(msg) - Len(part)) :
     \A j \in 1..Len(part) : msg[i + j] = part[j]

NoResult == [pending |-> TRUE, ok |-> FALSE, message |-> <<>>,
             status_changed |-> "none", product_status |-> "none"]

Err(msg) == [pending |-> FALSE, ok |-> FALSE, message |-> msg,
             status_changed |-> "none", product_status |-> "none"]

\* EnhancedStatusResponse with status "success"
EnhancedStatusResponse(msg, sc, ps) ==
  [pending |-> FALSE, ok |-> TRUE, message |-> msg,
   status_changed |-> sc, product_status |-> ps]

(* --------------------------- adjust_inventory -------------------------- *)
InventoryUpdate(item, loc, adj) ==
  [variant_id |-> item, location_id |-> loc, adjustment |-> adj]

\* the remote inventory-adjust endpoint applied to one update
ApplyUpdate(q, u) ==
  [q EXCEPT ![<<u.variant_id, u.location_id>>] = @ + u.adjustment]

\* adjust_inventory's error for a non-success response
AdjustError(text) == <<"Failed to adjust inventory: ", text>>

\* the endpoint applied to every update of a list
RECURSIVE ApplyAll(_, _)
ApplyAll(q, updates) ==
  IF updates = <<>> THEN q
  ELSE ApplyAll(ApplyUpdate(q, Head(updates)), Tail(updates))

\* adjust_inventory undoing the updates that went before the rejected one
adjust_inventory_compensating(q, updates, fail, text) ==
  IF fail \in 1..Len(updates)
  THEN [qty |-> q, ok |-> FALSE, err |-> AdjustError(text)]
  ELSE [qty |-> ApplyAll(q, updates), ok |-> TRUE, err |-> <<>>]

\* adjust_inventory(updates) when request number `fail` is rejected with
\* `text` (fail = 0: every request succeeds).  Updates are sent in list
\* order; the first rejected one returns the error, the earlier ones stay.
RECURSIVE adjust_inventory(_, _, _, _)
adjust_inventory(q, updates, fail, text) ==
  IF updates = <<>> THEN [qty |-> q, ok |-> TRUE, err |-> <<>>]
  ELSE IF fail = 1 THEN [qty |-> q, ok |-> FALSE, err |-> AdjustError(text)]
  ELSE adjust_inventory(ApplyUpdate(q, Head(updates)), Tail(updates),
                        IF fail = 0 THEN 0 ELSE fail - 1, text)

\* entry of `calls` for one adjust request
AdjustCall(u, res) ==
  [call |-> "adjust", item |-> u.variant_id, location |-> u.location_id,
   delta |-> u.adjustment, ok |-> res.ok, err |-> res.err]

(* ------------------- has_zero_inventory_across_all_locations ----------- *)
\* get_inventory_levels for the product's variants: item -> location -> qty
get_inventory_levels(q) ==
  [i \in InventoryItems |-> [l \in LocationIds |-> q[<<i, l>>]]]


\* the check reading any non-zero level as stock
has_zero_inventory_nonzero(q) ==
  LET inventory_levels == get_inventory_levels(q)
      has_inventory ==
        \E i \in DOMAIN inventory_levels :
          \E l \in DOMAIN inventory_levels[i] : inventory_levels[i][l] /= 0
  IN ~has_inventory

has_zero_inventory_across_all_locations(q) ==
  LET inventory_levels == get_inventory_levels(q)
      has_inventory ==
        \E i \in DOMAIN inventory_levels :
          \E l \in DOMAIN inventory_levels[i] : inventory_levels[i][l] > 0
  IN ~has_inventory

CheckCall(ok, zero, err) ==
  [call |-> "check", ok |-> ok, zero |-> zero, err |-> err]

\* the remote status-update endpoint
update_product_status(current, new_status, ok) == IF ok THEN new_status ELSE current

StatusCall(status, ok, err) ==
  [call |-> "update_status", status |-> status, ok |-> ok, err |-> err]

\* update_product_status's error for a non-success response
StatusError(text) == <<"Failed to update product status: ", text>>

\* failure of the product / inventory-level read inside the check
CheckError(text) == <<"Request failed: ", text>>

(* ------------------------------ audit log ------------------------------ *)
LogData(id, variant, negozio, item, rettifica) ==
  [id |-> id, variant |-> variant, negozio |-> negozio,
   inventory_item_id |-> item, rettifica |-> rettifica]

LogEntry(request_type, data) == [request_type |-> request_type, data |-> data]

LogCall(entry, ok, err) ==
  [call |-> "create_log", entry |-> entry, ok |-> ok, err |-> err]

\* FirebaseClient::create_log's error for a non-success response
FirestoreError(text) == <<"Firestore error: ", text>>

(* -------------------------------- Init --------------------------------- *)
NoReq == [op |-> "none", inventory_item_id |-> "", location_id |-> "",
          from_location_id |-> "", to_location_id |-> "",
          from_location |-> "", to_location |-> "",
          product_id |-> "", variant_title |-> ""]

Init ==
  /\ qty \in [InventoryItems \X LocationIds -> 0..1]
  /\ productStatus = IF has_zero_inventory_across_all_locations(qty)
                     THEN "draft" ELSE "active"
  /\ logs = <<>>
  /\ pc = "idle"
  /\ req = NoReq
  /\ pre = qty
  /\ pre_status = productStatus
  /\ calls = <<>>
  /\ to_err = <<>>
  /\ status_changed = "none"
  /\ current_product_status = "none"
  /\ had_zero_inventory = FALSE
  /\ result = NoResult
  /\ FetchIdle
  /\ StockIdle
  /\ LocIdle
  /\ ConcIdle

\* a command is started only while the levels it moves stay in the range
CanTake(item, loc) == qty[<<item, loc>>] > 0 - MaxNeg

CanAdd(item, loc) == qty[<<item, loc>>] < MaxQty

\* the frontend invokes a command: its arguments are bound, nothing is sent yet
Begin(r, first) ==
  /\ pc = "idle"
  /\ pc' = first
  /\ req' = r
  /\ pre' = qty
  /\ pre_status' = productStatus
  /\ UNCHANGED <<fetchVars, stockVars, locVars, concVars, qty, productStatus, logs, calls, to_err, status_changed,
                 current_product_status, had_zero_inventory, result>>

\* the command's future has resolved and the caller took the result
Return ==
  /\ pc = "done"
  /\ pc' = "idle"
  /\ req' = NoReq
  /\ pre' = qty
  /\ pre_status' = productStatus
  /\ calls' = <<>>
  /\ logs' = <<>>
  /\ to_err' = <<>>
  /\ status_changed' = "none"
  /\ current_product_status' = "none"
  /\ had_zero_inventory' = FALSE
  /\ result' = NoResult
  /\ UNCHANGED <<fetchVars, stockVars, locVars, concVars, qty, productStatus>>

(* ---------------- transfer_inventory_between_locations ----------------- *)
TransferRequest(item, from_id, to_id) ==
  [op |-> "transfer", inventory_item_id |-> item, location_id |-> "",
   from_location_id |-> from_id, to_location_id |-> to_id,
   from_location |-> LocName(from_id), to_location |-> LocName(to_id),
   product_id |-> ProductId, variant_title |-> VariantTitle(item)]

decrease_update(r) == InventoryUpdate(r.inventory_item_id, r.from_location_id, 0 - 1)


\* the increment aimed at the source location again
increase_update_at_source(r) == InventoryUpdate(r.inventory_item_id, r.from_location_id, 1)

increase_update(r) == InventoryUpdate(r.inventory_item_id, r.to_location_id, 1)


\* the compensation aimed at the destination
rollback_update_at_dest(r) == InventoryUpdate(r.inventory_item_id, r.to_location_id, 1)

rollback_update(r) == InventoryUpdate(r.inventory_item_id, r.from_location_id, 1)

RemovalError(r, e) == <<"Errore nella rimozione da ", r.from_location, ": ">> \o e

AdditionError(r, e) == <<"Errore nell'aggiunta a ", r.to_location, ": ">> \o e

CriticalMarker == "ERRORE CRITICO: Fallimento trasferimento e rollback fallito. Originale: "


\* the critical error reporting the rollback failure alone
CriticalError_rollback_only(e, rollback_err) ==
  <<CriticalMarker>> \o <<", Rollback: ">> \o rollback_err

CriticalError(e, rollback_err) ==
  <<CriticalMarker>> \o e \o <<", Rollback: ">> \o rollback_err

source_log_entry(r) ==
  LogEntry("Trasferimento",
           LogData(r.product_id, r.variant_title, r.from_location,
                   r.inventory_item_id, 0 - 1))


\* the destination record built with the source record's delta
dest_log_entry_negative(r) ==
  LogEntry("Trasferimento",
           LogData(r.product_id, r.variant_title, r.to_location,
                   r.inventory_item_id, 0 - 1))

dest_log_entry(r) ==
  LogEntry("Trasferimento",
           LogData(r.product_id, r.variant_title, r.to_location,
                   r.inventory_item_id, 1))

TransferMessage(r) ==
  <<"Trasferimento completato: ", r.variant_title, " spostato da ",
    r.from_location, " a ", r.to_location>>

\* the command is invoked; the backend validates nothing (line 512)
TransferStart ==
  \E item \in InventoryItems, from_id \in LocationIds, to_id \in LocationIds :
    /\ CanTake(item, from_id)
    /\ CanAdd(item, to_id)
    /\ Begin(TransferRequest(item, from_id, to_id), "t_decrease")


\* the decrement whose failure does not return
TransferDecrease_no_return ==
  /\ pc = "t_decrease"
  /\ \E fail \in 0..1, text \in ErrTexts :
       LET u == decrease_update(req)
           from_result == adjust_inventory(qty, <<u>>, fail, text)
       IN /\ qty' = from_result.qty
          /\ calls' = Append(calls, AdjustCall(u, from_result))
          /\ pc' = "t_increase"
          /\ result' = result
  /\ UNCHANGED <<fetchVars, stockVars, locVars, concVars, productStatus, logs, req, pre, pre_status, to_err, status_changed,
                 current_product_status, had_zero_inventory>>

\* lines 515-530: decrement at the source
TransferDecrease ==
  /\ pc = "t_decrease"
  /\ \E fail \in 0..1, text \in ErrTexts :
       LET u == decrease_update(req)
           from_result == adjust_inventory(qty, <<u>>, fail, text)
       IN /\ qty' = from_result.qty
          /\ calls' = Append(calls, AdjustCall(u, from_result))
          /\ IF from_result.ok
             THEN /\ pc' = "t_increase"
                  /\ result' = result
             ELSE /\ pc' = "done"
                  /\ result' = Err(RemovalError(req, from_result.err))
  /\ UNCHANGED <<fetchVars, stockVars, locVars, concVars, productStatus, logs, req, pre, pre_status, to_err, status_changed,
                 current_product_status, had_zero_inventory>>

\* lines 540-541 with the transfer going on whatever the increment did
after_increase_no_rollback(to_result) == "t_log_source"

\* lines 540-541: `if let Err(to_err) = to_result` starts the compensation
after_increase(to_result) == IF to_result.ok THEN "t_log_source" ELSE "t_rollback"

\* lines 532-541: increment at the destination
TransferIncrease ==
  /\ pc = "t_increase"
  /\ \E fail \in 0..1, text \in ErrTexts :
       LET u == increase_update(req)
           to_result == adjust_inventory(qty, <<u>>, fail, text)
       IN /\ qty' = to_result.qty
          /\ calls' = Append(calls, AdjustCall(u, to_result))
          /\ to_err' = to_result.err
          /\ pc' = after_increase(to_result)
  /\ UNCHANGED <<fetchVars, stockVars, locVars, concVars, productStatus, logs, req, pre, pre_status, status_changed,
                 current_product_status, had_zero_inventory, result>>

\* lines 542-558: compensation at the source
TransferRollback ==
  /\ pc = "t_rollback"
  /\ \E fail \in 0..1, text \in ErrTexts :
       LET u == rollback_update(req)
           rollback_result == adjust_inventory(qty, <<u>>, fail, text)
       IN /\ qty' = rollback_result.qty
          /\ calls' = Append(calls, AdjustCall(u, rollback_result))
          /\ result' = IF rollback_result.ok
                       THEN Err(AdditionError(req, to_err))
                       ELSE Err(CriticalError(to_err, rollback_result.err))
  /\ pc' = "done"
  /\ UNCHANGED <<fetchVars, stockVars, locVars, concVars, productStatus, logs, req, pre, pre_status, to_err, status_changed,
                 current_product_status, had_zero_inventory>>

\* lines 562-589: audit record of the source location, failure is a warning
TransferLogSource ==
  /\ pc = "t_log_source"
  /\ \E ok \in BOOLEAN, text \in ErrTexts :
       LET entry == source_log_entry(req)
       IN /\ calls' = Append(calls, LogCall(entry, ok,
                               IF ok THEN <<>> ELSE FirestoreError(text)))
          /\ logs' = IF ok THEN Append(logs, entry) ELSE logs
  /\ pc' = "t_log_dest"
  /\ UNCHANGED <<fetchVars, stockVars, locVars, concVars, qty, productStatus, req, pre, pre_status, to_err, status_changed,
                 current_product_status, had_zero_inventory, result>>

\* lines 591-617: audit record of the destination location
TransferLogDest ==
  /\ pc = "t_log_dest"
  /\ \E ok \in BOOLEAN, text \in ErrTexts :
       LET entry == dest_log_entry(req)
       IN /\ calls' = Append(calls, LogCall(entry, ok,
                               IF ok THEN <<>> ELSE FirestoreError(text)))
          /\ logs' = IF ok THEN Append(logs, entry) ELSE logs
  /\ pc' = "t_check"
  /\ UNCHANGED <<fetchVars, stockVars, locVars, concVars, qty, productStatus, req, pre, pre_status, to_err, status_changed,
                 current_product_status, had_zero_inventory, result>>

\* lines 619-637: the zero-inventory check; Ok(false) and Err(e) both return
\* the success response (lines 640-648) without a status change
TransferCheck ==
  /\ pc = "t_check"
  /\ \E ok \in BOOLEAN, text \in ErrTexts :
       LET zero == ok /\ has_zero_inventory_across_all_locations(qty)
       IN /\ calls' = Append(calls, CheckCall(ok, zero,
                               IF ok THEN <<>> ELSE CheckError(text)))
          /\ IF zero
             THEN /\ pc' = "t_status"
                  /\ result' = result
             ELSE /\ pc' = "done"
                  /\ result' = EnhancedStatusResponse(TransferMessage(req),
                                                      "none", "none")
  /\ UNCHANGED <<fetchVars, stockVars, locVars, concVars, qty, productStatus, logs, req, pre, pre_status, to_err, status_changed,
                 current_product_status, had_zero_inventory>>

\* line 623: update_product_status(..., "draft").await? inside the Ok(true) arm
TransferStatus ==
  /\ pc = "t_status"
  /\ \E ok \in BOOLEAN, text \in ErrTexts :
       /\ productStatus' = update_product_status(productStatus, "draft", ok)
       /\ calls' = Append(calls, StatusCall("draft", ok,
                            IF ok THEN <<>> ELSE StatusError(text)))
       /\ IF ok
          THEN /\ status_changed' = "to_draft"
               /\ result' = EnhancedStatusResponse(TransferMessage(req),
                                                   "to_draft", "none")
          ELSE /\ status_changed' = status_changed
               /\ result' = Err(StatusError(text))
  /\ pc' = "done"
  /\ UNCHANGED <<fetchVars, stockVars, locVars, concVars, qty, logs, req, pre, pre_status, to_err, current_product_status,
                 had_zero_inventory>>

(* -------------------- decrease_inventory_with_logging ------------------ *)
DecreaseRequest(item, loc) ==
  [op |-> "decrease", inventory_item_id |-> item, location_id |-> loc,
   from_location_id |-> "", to_location_id |-> "",
   from_location |-> LocName(loc), to_location |-> "",
   product_id |-> ProductId, variant_title |-> VariantTitle(item)]

\* firebase::create_inventory_log_data as the two commands call it
create_inventory_log_data(r, adjustment) ==
  LogData(r.product_id, r.variant_title, r.from_location,
          r.inventory_item_id, adjustment)

DecreaseMessage(sc) ==
  IF sc = "none"
  THEN <<"Inventario diminuito e registrato con successo">>
  ELSE <<"Inventario diminuito e registrato con successo",
         " - Prodotto impostato come bozza (inventario esaurito)">>

DecreaseStart ==
  \E item \in InventoryItems, loc \in LocationIds :
    /\ CanTake(item, loc)
    /\ Begin(DecreaseRequest(item, loc), "d_adjust")

\* lines 321-330: adjust_inventory(...).await?
DecreaseAdjust ==
  /\ pc = "d_adjust"
  /\ \E fail \in 0..1, text \in ErrTexts :
       LET update == InventoryUpdate(req.inventory_item_id, req.location_id, 0 - 1)
           res == adjust_inventory(qty, <<update>>, fail, text)
       IN /\ qty' = res.qty
          /\ calls' = Append(calls, AdjustCall(update, res))
          /\ IF res.ok
             THEN /\ pc' = "d_check"
                  /\ result' = result
             ELSE /\ pc' = "done"
                  /\ result' = Err(res.err)
  /\ UNCHANGED <<fetchVars, stockVars, locVars, concVars, productStatus, logs, req, pre, pre_status, to_err, status_changed,
                 current_product_status, had_zero_inventory>>

\* lines 332-338: has_zero_inventory_across_all_locations(...).await?
DecreaseCheck ==
  /\ pc = "d_check"
  /\ \E ok \in BOOLEAN, text \in ErrTexts :
       LET has_zero_inventory == ok /\ has_zero_inventory_across_all_locations(qty)
       IN /\ calls' = Append(calls, CheckCall(ok, has_zero_inventory,
                               IF ok THEN <<>> ELSE CheckError(text)))
          /\ IF ~ok
             THEN /\ pc' = "done"
                  /\ result' = Err(CheckError(text))
             ELSE /\ pc' = IF has_zero_inventory THEN "d_status" ELSE "d_log"
                  /\ result' = result
  /\ UNCHANGED <<fetchVars, stockVars, locVars, concVars, qty, productStatus, logs, req, pre, pre_status, to_err, status_changed,
                 current_product_status, had_zero_inventory>>

\* lines 338-351: a failed status update is printed and the command goes on
DecreaseStatus ==
  /\ pc = "d_status"
  /\ \E ok \in BOOLEAN, text \in ErrTexts :
       /\ productStatus' = update_product_status(productStatus, "draft", ok)
       /\ calls' = Append(calls, StatusCall("draft", ok,
                            IF ok THEN <<>> ELSE StatusError(text)))
       /\ status_changed' = IF ok THEN "to_draft" ELSE status_changed
       /\ current_product_status' = IF ok THEN "draft" ELSE current_product_status
  /\ pc' = "d_log"
  /\ UNCHANGED <<fetchVars, stockVars, locVars, concVars, qty, logs, req, pre, pre_status, to_err, had_zero_inventory, result>>

\* lines 353-392: firebase_client.create_log(log_entry).await? then Ok(..)
DecreaseLog ==
  /\ pc = "d_log"
  /\ \E ok \in BOOLEAN, text \in ErrTexts :
       LET log_entry == LogEntry("Rettifica", create_inventory_log_data(req, 0 - 1))
       IN /\ calls' = Append(calls, LogCall(log_entry, ok,
                               IF ok THEN <<>> ELSE FirestoreError(text)))
          /\ logs' = IF ok THEN Append(logs, log_entry) ELSE logs
          /\ result' = IF ok
                       THEN EnhancedStatusResponse(DecreaseMessage(status_changed),
                                status_changed, current_product_status)
                       ELSE Err(FirestoreError(text))
  /\ pc' = "done"
  /\ UNCHANGED <<fetchVars, stockVars, locVars, concVars, qty, productStatus, req, pre, pre_status, to_err, status_changed,
                 current_product_status, had_zero_inventory>>

(* ------------------ undo_decrease_inventory_with_logging --------------- *)
UndoRequest(item, loc) ==
  [op |-> "undo", inventory_item_id |-> item, location_id |-> loc,
   from_location_id |-> "", to_location_id |-> "",
   from_location |-> LocName(loc), to_location |-> "",
   product_id |-> ProductId, variant_title |-> VariantTitle(item)]

UndoMessage(sc) ==
  IF sc = "none"
  THEN <<"Inventario ripristinato e registrato con successo">>
  ELSE <<"Inventario ripristinato e registrato con successo",
         " - Prodotto riattivato (inventario disponibile)">>

UndoStart ==
  \E item \in InventoryItems, loc \in LocationIds :
    /\ CanAdd(item, loc)
    /\ Begin(UndoRequest(item, loc), "u_check")

\* lines 412-413: the check comes before the adjustment, with `?`
UndoCheck ==
  /\ pc = "u_check"
  /\ \E ok \in BOOLEAN, text \in ErrTexts :
       LET zero == ok /\ has_zero_inventory_across_all_locations(qty)
       IN /\ calls' = Append(calls, CheckCall(ok, zero,
                               IF ok THEN <<>> ELSE CheckError(text)))
          /\ had_zero_inventory' = zero
          /\ IF ~ok
             THEN /\ pc' = "done"
                  /\ result' = Err(CheckError(text))
             ELSE /\ pc' = "u_adjust"
                  /\ result' = result
  /\ UNCHANGED <<fetchVars, stockVars, locVars, concVars, qty, productStatus, logs, req, pre, pre_status, to_err, status_changed,
                 current_product_status>>

\* lines 415-424: adjust_inventory(...).await?
UndoAdjust ==
  /\ pc = "u_adjust"
  /\ \E fail \in 0..1, text \in ErrTexts :
       LET update == InventoryUpdate(req.inventory_item_id, req.location_id, 1)
           res == adjust_inventory(qty, <<update>>, fail, text)
       IN /\ qty' = res.qty
          /\ calls' = Append(calls, AdjustCall(update, res))
          /\ IF res.ok
             THEN /\ pc' = IF had_zero_inventory THEN "u_status" ELSE "u_log"
                  /\ result' = result
             ELSE /\ pc' = "done"
                  /\ result' = Err(res.err)
  /\ UNCHANGED <<fetchVars, stockVars, locVars, concVars, productStatus, logs, req, pre, pre_status, to_err, status_changed,
                 current_product_status, had_zero_inventory>>

\* lines 430-443: back to active; a failed update is printed and ignored
UndoStatus ==
  /\ pc = "u_status"
  /\ \E ok \in BOOLEAN, text \in ErrTexts :
       /\ productStatus' = update_product_status(productStatus, "active", ok)
       /\ calls' = Append(calls, StatusCall("active", ok,
                            IF ok THEN <<>> ELSE StatusError(text)))
       /\ status_changed' = IF ok THEN "to_active" ELSE status_changed
       /\ current_product_status' = IF ok THEN "active" ELSE current_product_status
  /\ pc' = "u_log"
  /\ UNCHANGED <<fetchVars, stockVars, locVars, concVars, qty, logs, req, pre, pre_status, to_err, had_zero_inventory, result>>

\* lines 445-484: firebase_client.create_log(log_entry).await? then Ok(..)
UndoLog ==
  /\ pc = "u_log"
  /\ \E ok \in BOOLEAN, text \in ErrTexts :
       LET log_entry == LogEntry("Annullamento", create_inventory_log_data(req, 1))
       IN /\ calls' = Append(calls, LogCall(log_entry, ok,
                               IF ok THEN <<>> ELSE FirestoreError(text)))
          /\ logs' = IF ok THEN Append(logs, log_entry) ELSE logs
          /\ result' = IF ok
                       THEN EnhancedStatusResponse(UndoMessage(status_changed),
                                status_changed, current_product_status)
                       ELSE Err(FirestoreError(text))
  /\ pc' = "done"
  /\ UNCHANGED <<fetchVars, stockVars, locVars, concVars, qty, productStatus, req, pre, pre_status, to_err, status_changed,
                 current_product_status, had_zero_inventory>>

Next ==
  \/ TransferStart
  \/ TransferDecrease
  \/ TransferIncrease
  \/ TransferRollback
  \/ TransferLogSource
  \/ TransferLogDest
  \/ TransferCheck
  \/ TransferStatus
  \/ DecreaseStart
  \/ DecreaseAdjust
  \/ DecreaseCheck
  \/ DecreaseStatus
  \/ DecreaseLog
  \/ UndoStart
  \/ UndoAdjust
  \/ UndoCheck
  \/ UndoStatus
  \/ UndoLog
  \/ Return

Spec == Init /\ [][Next]_vars

(* ==================== fetch_all_products_concurrent =================== *)
\* stock/mod.rs line 154
batch_size == 3

\* The listing endpoint: item j of page k is <<k, j>>; the request without
\* page_info gets page 1, the request with cursor k gets page k, and the Link
\* header of page k names page k + 1 unless k is the last page.
ServerPage(k, size) == [j \in 1..size |-> <<k, j>>]

ServerCatalogs ==
  UNION { { [k \in 1..n |-> ServerPage(k, sizes[k])] :
            sizes \in [1..n -> 0..MaxPageSize] } : n \in 1..MaxPages }

\* what one page request can come to
PageOutcomes == {"ok", "transport", "http", "parse", "panic"}

\* fetch_single_page, then the JoinHandle's result (lines 178-188)
fetch_single_page(pages, task_page_info, outcome) ==
  LET k == IF task_page_info = None THEN 1 ELSE task_page_info[1]
  IN CASE outcome = "ok" ->
            [ok |-> TRUE, products |-> pages[k],
             next |-> IF k < Len(pages) THEN Some(k + 1) ELSE None, err |-> <<>>]
       [] outcome = "transport" ->
            [ok |-> FALSE, products |-> <<>>, next |-> None,
             err |-> <<"Request failed: ">>]
       [] outcome = "http" ->
            [ok |-> FALSE, products |-> <<>>, next |-> None,
             err |-> <<"HTTP error! status: ", " | Response: ">>]
       [] outcome = "parse" ->
            [ok |-> FALSE, products |-> <<>>, next |-> None,
             err |-> <<"Failed to parse JSON: ">>]
       [] outcome = "panic" ->
            [ok |-> FALSE, products |-> <<>>, next |-> None,
             err |-> <<"Task failed: ">>]

\* line 157 with every index spawning a task
should_spawn_always(i, pi) == TRUE

\* line 157: `if i == 0 || page_info.is_some()`
should_spawn(i, pi) == i = 0 \/ pi /= None

\* lines 167-169 without the reset of page_info
page_info_after_spawn_kept(i, pi) == pi

\* lines 167-169: `if i == 0 { page_info = None; }`
page_info_after_spawn(i, pi) == IF i = 0 THEN None ELSE pi

\* lines 156-171: the page_info of each task spawned for one batch
RECURSIVE spawn_batch(_, _, _)
spawn_batch(i, pi, tasks) ==
  IF i = batch_size THEN tasks
  ELSE IF should_spawn(i, pi)
       THEN spawn_batch(i + 1, page_info_after_spawn(i, pi), Append(tasks, pi))
       ELSE spawn_batch(i + 1, pi, tasks)

\* lines 175-189: the results are read in spawn order; the first failed one
\* returns its error
RECURSIVE collect_results(_, _, _)
collect_results(results, batch_products, next_page_info) ==
  IF results = <<>>
  THEN [failed |-> FALSE, err |-> <<>>, batch_products |-> batch_products,
        next_page_info |-> next_page_info]
  ELSE LET r == Head(results)
       IN IF r.ok
          THEN collect_results(Tail(results), batch_products \o r.products,
                 IF next_page_info = None THEN r.next ELSE next_page_info)
          ELSE [failed |-> TRUE, err |-> r.err, batch_products |-> <<>>,
                next_page_info |-> None]

\* the fetch giving back what it has when a page fails
page_failure_result_partial(products, e) == FetchOk(products)

\* lines 186-187: `return Err(e)`
page_failure_result(products, e) == FetchErr(e)

\* the loop going on after an empty batch
stops_on_empty_never(batch_products) == FALSE

\* lines 191-193: `if batch_products.is_empty() { break; }`
stops_on_empty(batch_products) == batch_products = <<>>

\* the batch put in front of what was fetched before
extend_front(products, batch_products) == batch_products \o products

\* line 200: all_products.extend(batch_products)
extend(products, batch_products) == products \o batch_products

\* entry of fetch_requests for one page request and its response
PageRequest(task_page_info, r) ==
  [page_info |-> task_page_info, ok |-> r.ok, count |-> Len(r.products),
   next |-> r.next]

\* no inventory command is running in the process that scans the catalog
InvIdle ==
  /\ qty = [k \in InventoryItems \X LocationIds |-> 0]
  /\ productStatus = "draft"
  /\ logs = <<>>
  /\ pc = "idle"
  /\ req = NoReq
  /\ pre = qty
  /\ pre_status = productStatus
  /\ calls = <<>>
  /\ to_err = <<>>
  /\ status_changed = "none"
  /\ current_product_status = "none"
  /\ had_zero_inventory = FALSE
  /\ result = NoResult

FetchInit ==
  /\ server_pages \in ServerCatalogs
  /\ fetch_pc = "idle"
  /\ all_products = <<>>
  /\ page_info = None
  /\ fetch_requests = <<>>
  /\ fetch_result = NoFetchResult
  /\ StockIdle
  /\ InvIdle
  /\ LocIdle
  /\ ConcIdle

\* lines 141-147: the fetch is called
FetchStart ==
  /\ fetch_pc = "idle"
  /\ fetch_result.pending
  /\ fetch_pc' = "loop"
  /\ all_products' = <<>>
  /\ page_info' = None
  /\ UNCHANGED <<server_pages, fetch_requests, fetch_result, invVars, stockVars, locVars, concVars>>

\* lines 149-209: one turn of the loop: the batch is spawned, joined and read
FetchBatch ==
  /\ fetch_pc = "loop"
  /\ LET tasks == spawn_batch(0, page_info, <<>>)
     IN \E outcomes \in [1..Len(tasks) -> PageOutcomes] :
          LET results == [i \in 1..Len(tasks) |->
                            fetch_single_page(server_pages, tasks[i], outcomes[i])]
              c == collect_results(results, <<>>, None)
          IN /\ fetch_requests' = fetch_requests \o
                   [i \in 1..Len(tasks) |-> PageRequest(tasks[i], results[i])]
             /\ IF c.failed
                THEN /\ fetch_result' = page_failure_result(all_products, c.err)
                     /\ fetch_pc' = "done"
                     /\ UNCHANGED <<all_products, page_info>>
                ELSE IF stops_on_empty(c.batch_products)
                THEN /\ fetch_result' = FetchOk(all_products)
                     /\ fetch_pc' = "done"
                     /\ page_info' = None
                     /\ UNCHANGED all_products
                ELSE /\ all_products' = extend(all_products, c.batch_products)
                     /\ page_info' = c.next_page_info
                     /\ IF c.next_page_info = None
                        THEN /\ fetch_result' = FetchOk(all_products')
                             /\ fetch_pc' = "done"
                        ELSE /\ fetch_result' = fetch_result
                             /\ fetch_pc' = "loop"
  /\ UNCHANGED <<server_pages, invVars, stockVars, locVars, concVars>>

FetchNext ==
  \/ FetchStart
  \/ FetchBatch

FetchSpec == FetchInit /\ [][FetchNext]_vars

\* the runtime drives the fetch's future until it resolves
FetchFairSpec == FetchSpec /\ WF_vars(FetchNext)

(* ================= stock scan: filter, updater, summary ================ *)
\* a u64 is its sequence of decimal digits, a String its sequence of characters
DigitChars == <<"0", "1", "2", "3", "4", "5", "6", "7", "8", "9">>

\* u64::to_string
to_string(id) == [i \in DOMAIN id |-> DigitChars[id[i] + 1]]

\* str::parse::<u64> (line 376): the digits, unless a character is no digit
parse_u64(str) ==
  IF str /= <<>> /\ \A i \in DOMAIN str : \E d \in 0..9 : DigitChars[d + 1] = str[i]
  THEN [ok |-> TRUE,
        value |-> [i \in DOMAIN str |->
                     CHOOSE d \in 0..9 : DigitChars[d + 1] = str[i]]]
  ELSE [ok |-> FALSE, value |-> <<>>]

\* line 11: 3587363962985
EXCLUDED_PRODUCT_IDS == { <<3, 5, 8, 7, 3, 6, 3, 9, 6, 2, 9, 8, 5>> }

\* lines 14-21
EXCLUDED_IDS_SET == { to_string(id) : id \in EXCLUDED_PRODUCT_IDS }

\* the products the shop can list
ProductIds == EXCLUDED_PRODUCT_IDS \cup { <<7>> }

ProductTitles == {"Cappello", "Sciarpa"}

ProductStatuses == {"active", "draft"}

\* inventory_quantity of each variant of a product
VariantLists == { <<>>, <<0, 1>>, <<-1, 0>> }

ShopifyProduct ==
  [id : ProductIds, title : ProductTitles, status : ProductStatuses,
   variants : VariantLists]

Catalogs == UNION { [1..n -> ShopifyProduct] : n \in 0..MaxProducts }

\* lines 286-289 counting a level of zero as stock
has_stock_nonnegative(variants) == \E i \in DOMAIN variants : variants[i] >= 0

\* lines 286-289: variants.iter().any(|v| v.inventory_quantity > 0)
has_stock(variants) == \E i \in DOMAIN variants : variants[i] > 0

\* line 292 with nothing excluded
is_excluded_never(id) == FALSE

\* line 292: EXCLUDED_IDS_SET.contains(&product.id.to_string())
is_excluded(id) == to_string(id) \in EXCLUDED_IDS_SET

\* lines 293-298
ProductNoStock(product) ==
  [id |-> to_string(product.id), title |-> product.title,
   status |-> product.status, is_excluded |-> is_excluded(product.id)]

\* lines 282-305: filter_map over the products in order
RECURSIVE find_products_with_no_stock(_)
find_products_with_no_stock(products) ==
  IF products = <<>> THEN <<>>
  ELSE LET product == Head(products)
           rest == find_products_with_no_stock(Tail(products))
       IN IF product.status = "active" /\ ~has_stock(product.variants)
          THEN <<ProductNoStock(product)>> \o rest
          ELSE rest

\* lines 38-44
UpdateResult(product, success, error) ==
  [product_id |-> product.id, title |-> product.title, success |-> success,
   error |-> error]

\* what one status update can come to
UpdateOutcomes == {"ok", "transport", "http"}

\* lines 366-398: the request is sent once the id has parsed
update_single_product_status(product_id, status, outcome) ==
  LET parsed == parse_u64(product_id)
  IN IF ~parsed.ok
     THEN [ok |-> FALSE, err |-> <<"Invalid product ID: ">>, sent |-> <<>>]
     ELSE [ok |-> outcome = "ok",
           err |-> CASE outcome = "ok" -> <<>>
                     [] outcome = "transport" -> <<"Request failed: ">>
                     [] outcome = "http" -> <<"HTTP error! status: ">>,
           sent |-> << [product_id |-> parsed.value, status |-> status,
                        ok |-> outcome = "ok"] >>]

\* lines 322-331: the outcome of an excluded product
ExcludedResult(product) ==
  UpdateResult(product, TRUE, Some(<<"Excluded from updates">>))

\* line 322 with the exclusion ignored
skips_update_never(product) == FALSE

\* line 322: `if product.is_excluded`
skips_update(product) == product.is_excluded

\* line 410 counting every outcome with success = true
counts_as_successful_any(r) == r.success

\* line 410: filter(|r| r.success && r.error.is_none())
counts_as_successful(r) == r.success /\ r.error = None

\* lines 401-420
generate_summary(products, results) ==
  LET excluded_count == Cardinality({i \in DOMAIN products : products[i].is_excluded})
  IN [total_found |-> Len(products),
      excluded_count |-> excluded_count,
      eligible_count |-> Len(products) - excluded_count,
      successful_updates |->
        Cardinality({i \in DOMAIN results : counts_as_successful(results[i])}),
      failed_updates |->
        Cardinality({i \in DOMAIN results : ~results[i].success})]

\* lines 131-137: Ok(StockUpdateResult)
ScanOk(found, results, summary) ==
  [pending |-> FALSE, ok |-> TRUE, err |-> <<>>, products_found |-> found,
   update_results |-> results, summary |-> summary]

\* line 109: the fetch's error is the scan's error
ScanErr(e) ==
  [pending |-> FALSE, ok |-> FALSE, err |-> e, products_found |-> <<>>,
   update_results |-> <<>>, summary |-> NoScanResult.summary]

\* line 121 with the dry-run flag ignored
runs_updates_even_dry(dry, products) == products /= <<>>

\* line 121: `if !dry_run && !products_with_no_stock.is_empty()`
runs_updates(dry, products) == ~dry /\ products /= <<>>

\* the exit code depending on the failed updates as well
exit_code_of_strict(r) == IF r.ok /\ r.summary.failed_updates = 0 THEN 0 ELSE 1

\* bin/stock_manager.rs lines 33-49: Ok falls through to main's Ok(()), Err
\* calls std::process::exit(1)
exit_code_of(r) == IF r.ok THEN 0 ELSE 1

StockInit ==
  /\ catalog \in Catalogs
  /\ dry_run \in BOOLEAN
  /\ config_ok \in BOOLEAN
  /\ help \in BOOLEAN
  /\ exit_code = None
  /\ scan_pc = "main"
  /\ products_with_no_stock = <<>>
  /\ index = 0
  /\ update_results = <<>>
  /\ status_requests = <<>>
  /\ scan_result = NoScanResult
  /\ FetchIdle
  /\ InvIdle
  /\ LocIdle
  /\ ConcIdle

\* bin/stock_manager.rs lines 7-30: arguments, configuration, help
Main ==
  /\ scan_pc = "main"
  /\ IF ~config_ok
     THEN exit_code' = Some(1) /\ scan_pc' = "exited"
     ELSE IF help
     THEN exit_code' = Some(0) /\ scan_pc' = "exited"
     ELSE exit_code' = None /\ scan_pc' = "idle"
  /\ UNCHANGED <<catalog, dry_run, products_with_no_stock, index, update_results,
                 status_requests, scan_result, config_ok, help, invVars, fetchVars, locVars, concVars>>

\* bin/stock_manager.rs lines 32-49: the scan's result decides the exit code
MainExit ==
  /\ scan_pc = "done"
  /\ exit_code = None
  /\ exit_code' = Some(exit_code_of(scan_result))
  /\ scan_pc' = "exited"
  /\ UNCHANGED <<catalog, dry_run, products_with_no_stock, index, update_results,
                 status_requests, scan_result, config_ok, help, invVars, fetchVars, locVars, concVars>>

\* lines 93-107: scan_and_update_products is called
ScanStart ==
  /\ scan_pc = "idle"
  /\ scan_result.pending
  /\ scan_pc' = "fetch"
  /\ UNCHANGED <<catalog, dry_run, products_with_no_stock, index, update_results,
                 status_requests, scan_result, invVars, fetchVars, locVars, concVars,
                 config_ok, help, exit_code>>

\* lines 109-114: the catalog is fetched (or the fetch fails) and filtered
ScanFetch ==
  /\ scan_pc = "fetch"
  /\ \E fetched \in BOOLEAN :
       IF ~fetched
       THEN /\ scan_result' = ScanErr(<<"Request failed: ">>)
            /\ scan_pc' = "done"
            /\ UNCHANGED products_with_no_stock
       ELSE /\ products_with_no_stock' = find_products_with_no_stock(catalog)
            /\ scan_pc' = IF runs_updates(dry_run, products_with_no_stock')
                          THEN "updating" ELSE "summary"
            /\ UNCHANGED scan_result
  /\ UNCHANGED <<catalog, dry_run, index, update_results, status_requests,
                 invVars, fetchVars, locVars, concVars,
                 config_ok, help, exit_code>>

\* the updater giving up at the first failed update
UpdateStep_abort_on_failure ==
  /\ scan_pc = "updating"
  /\ index < Len(products_with_no_stock)
  /\ LET product == products_with_no_stock[index + 1]
     IN IF skips_update(product)
        THEN /\ update_results' = Append(update_results, ExcludedResult(product))
             /\ index' = index + 1
             /\ scan_pc' = IF index' = Len(products_with_no_stock)
                           THEN "summary" ELSE "updating"
             /\ UNCHANGED <<status_requests, scan_result>>
        ELSE \E outcome \in UpdateOutcomes :
               LET r == update_single_product_status(product.id, "draft", outcome)
               IN /\ status_requests' = status_requests \o r.sent
                  /\ index' = index + 1
                  /\ IF r.ok
                     THEN /\ update_results' =
                               Append(update_results, UpdateResult(product, TRUE, None))
                          /\ scan_pc' = IF index' = Len(products_with_no_stock)
                                        THEN "summary" ELSE "updating"
                          /\ UNCHANGED scan_result
                     ELSE /\ scan_result' = ScanErr(r.err)
                          /\ scan_pc' = "done"
                          /\ UNCHANGED update_results
  /\ UNCHANGED <<catalog, dry_run, products_with_no_stock, invVars, fetchVars, locVars, concVars,
                 config_ok, help, exit_code>>

\* lines 315-358: one turn of update_products_to_draft's loop
UpdateStep ==
  /\ scan_pc = "updating"
  /\ index < Len(products_with_no_stock)
  /\ LET product == products_with_no_stock[index + 1]
     IN IF skips_update(product)
        THEN /\ update_results' = Append(update_results, ExcludedResult(product))
             /\ UNCHANGED status_requests
        ELSE \E outcome \in UpdateOutcomes :
               LET r == update_single_product_status(product.id, "draft", outcome)
               IN /\ status_requests' = status_requests \o r.sent
                  /\ update_results' =
                       Append(update_results,
                              IF r.ok THEN UpdateResult(product, TRUE, None)
                              ELSE UpdateResult(product, FALSE, Some(r.err)))
  /\ index' = index + 1
  /\ scan_pc' = IF index' = Len(products_with_no_stock) THEN "summary" ELSE "updating"
  /\ UNCHANGED <<catalog, dry_run, products_with_no_stock, scan_result,
                 invVars, fetchVars, locVars, concVars,
                 config_ok, help, exit_code>>

\* lines 127-137: the summary is made and the scan returns
ScanSummary ==
  /\ scan_pc = "summary"
  /\ scan_result' = ScanOk(products_with_no_stock, update_results,
                           generate_summary(products_with_no_stock, update_results))
  /\ scan_pc' = "done"
  /\ UNCHANGED <<catalog, dry_run, products_with_no_stock, index, update_results,
                 status_requests, invVars, fetchVars, locVars, concVars,
                 config_ok, help, exit_code>>

StockNext ==
  \/ Main
  \/ ScanStart
  \/ ScanFetch
  \/ UpdateStep
  \/ ScanSummary
  \/ MainExit

StockSpec == StockInit /\ [][StockNext]_vars

(* ==================== persisted location (location/mod.rs) ============= *)
\* the names a location can be set to
LocationNames == { LOCATIONS[i][1] : i \in 1..Len(LOCATIONS) }

\* serde_json::to_string_pretty(&LocationSetting { location }): the text,
\* piece by piece
to_string_pretty(location) == << "{", "\"location\": ", location, "}" >>

\* serde_json::from_str::<LocationSetting>: only a complete object parses
from_str(content) ==
  IF /\ Len(content) = 4
     /\ content[1] = "{"
     /\ content[2] = "\"location\": "
     /\ content[4] = "}"
  THEN [ok |-> TRUE, location |-> content[3]]
  ELSE [ok |-> FALSE, location |-> ""]

\* lines 92-95
StatusResponse == LocOk("success")

LocInit ==
  /\ location_file \in {None} \cup { Some(to_string_pretty(l)) : l \in LocationNames }
  /\ set_pc = "idle"
  /\ set_location = ""
  /\ set_old = None
  /\ set_result = NoLocResult
  /\ get_pc = "idle"
  /\ get_content = <<>>
  /\ get_during_set = FALSE
  /\ get_result = NoLocResult
  /\ InvIdle
  /\ FetchIdle
  /\ StockIdle
  /\ ConcIdle

\* lines 59-60: get_app_location is called
GetStart ==
  /\ get_pc = "idle"
  /\ get_pc' = "exists"
  /\ get_result' = NoLocResult
  /\ get_content' = <<>>
  /\ get_during_set' = FALSE
  /\ UNCHANGED <<location_file, set_pc, set_location, set_old, set_result,
                 invVars, fetchVars, stockVars, concVars>>

\* lines 62 and 70-72: location_file.exists()
GetExists ==
  /\ get_pc = "exists"
  /\ IF location_file /= None
     THEN get_pc' = "read" /\ UNCHANGED get_result
     ELSE get_pc' = "done" /\ get_result' = LocErr(<<"Location not set">>)
  /\ UNCHANGED <<location_file, set_pc, set_location, set_old, set_result,
                 get_content, get_during_set, invVars, fetchVars, stockVars, concVars>>

\* lines 63-69: the file is read as it is now, then parsed
GetRead ==
  /\ get_pc = "read"
  /\ get_pc' = "done"
  /\ get_during_set' = (set_pc = "write")
  /\ \E read_ok \in BOOLEAN :
       IF ~read_ok
       THEN /\ get_result' = LocErr(<<"Failed to read location file: ">>)
            /\ UNCHANGED get_content
       ELSE /\ get_content' = location_file[1]
            /\ get_result' =
                 IF from_str(get_content').ok
                 THEN LocOk(from_str(get_content').location)
                 ELSE LocErr(<<"Failed to parse location file: ">>)
  /\ UNCHANGED <<location_file, set_pc, set_location, set_old, set_result,
                 invVars, fetchVars, stockVars, concVars>>

\* the command has returned to its caller
GetReturn ==
  /\ get_pc = "done"
  /\ get_pc' = "idle"
  /\ get_result' = NoLocResult
  /\ get_content' = <<>>
  /\ get_during_set' = FALSE
  /\ UNCHANGED <<location_file, set_pc, set_location, set_old, set_result,
                 invVars, fetchVars, stockVars, concVars>>

\* lines 76-87: set_app_location is called; the directory is made and the
\* setting serialised
SetStart ==
  /\ set_pc = "idle"
  /\ \E location \in LocationNames : set_location' = location
  /\ set_old' = location_file
  /\ \E dir_ok \in BOOLEAN :
       IF dir_ok
       THEN set_pc' = "open" /\ set_result' = NoLocResult
       ELSE /\ set_pc' = "done"
            /\ set_result' = LocErr(<<"Failed to create app data directory: ">>)
  /\ UNCHANGED <<location_file, get_pc, get_content, get_during_set, get_result,
                 invVars, fetchVars, stockVars, concVars>>

\* line 89, fs::write: the file is created or truncated
SetOpen ==
  /\ set_pc = "open"
  /\ \E open_ok \in BOOLEAN :
       IF open_ok
       THEN /\ location_file' = Some(<<>>)
            /\ set_pc' = "write"
            /\ UNCHANGED set_result
       ELSE /\ set_pc' = "done"
            /\ set_result' = LocErr(<<"Failed to write location file: ">>)
            /\ UNCHANGED location_file
  /\ UNCHANGED <<set_location, set_old, get_pc, get_content, get_during_set,
                 get_result, invVars, fetchVars, stockVars, concVars>>

\* lines 89-95, fs::write: the next part of the text is written into the file
SetWrite ==
  /\ set_pc = "write"
  /\ LET text == to_string_pretty(set_location)
         written == Len(location_file[1])
     IN \E n \in 0..(Len(text) - written) :
          IF n = 0
          THEN /\ set_pc' = "done"
               /\ set_result' = LocErr(<<"Failed to write location file: ">>)
               /\ UNCHANGED location_file
          ELSE /\ location_file' = Some(SubSeq(text, 1, written + n))
               /\ IF written + n = Len(text)
                  THEN set_pc' = "done" /\ set_result' = StatusResponse
                  ELSE set_pc' = "write" /\ UNCHANGED set_result
  /\ UNCHANGED <<set_location, set_old, get_pc, get_content, get_during_set,
                 get_result, invVars, fetchVars, stockVars, concVars>>

\* the command has returned to its caller
SetReturn ==
  /\ set_pc = "done"
  /\ set_pc' = "idle"
  /\ set_result' = NoLocResult
  /\ set_location' = ""
  /\ set_old' = None
  /\ UNCHANGED <<location_file, get_pc, get_content, get_during_set, get_result,
                 invVars, fetchVars, stockVars, concVars>>

LocNext ==
  \/ GetStart
  \/ GetExists
  \/ GetRead
  \/ GetReturn
  \/ SetStart
  \/ SetOpen
  \/ SetWrite
  \/ SetReturn

LocSpec == LocInit /\ [][LocNext]_vars

(* ================== adjust_inventory called on its own ================= *)
\* the updates a caller can put in the list
InventoryUpdates ==
  { InventoryUpdate(item, loc, adj) :
      item \in InventoryItems, loc \in LocationIds, adj \in {-1, 1} }

\* lines 186-189: the command's arguments, and which request (if any) the
\* endpoint rejects
AdjustRequests ==
  UNION { { [op |-> "adjust", updates |-> updates, fail |-> fail, text |-> text] :
              updates \in [1..n -> InventoryUpdates], fail \in 0..n,
              text \in ErrTexts } : n \in 0..MaxUpdates }

\* lines 215-218
AdjustCompleted ==
  EnhancedStatusResponse(<<"Inventory adjustments completed">>, "none", "none")

AdjustInit ==
  /\ qty \in [InventoryItems \X LocationIds -> 0..1]
  /\ productStatus = IF has_zero_inventory_across_all_locations(qty)
                     THEN "draft" ELSE "active"
  /\ req \in AdjustRequests
  /\ pre = qty
  /\ pre_status = productStatus
  /\ logs = <<>>
  /\ pc = "idle"
  /\ calls = <<>>
  /\ to_err = <<>>
  /\ status_changed = "none"
  /\ current_product_status = "none"
  /\ had_zero_inventory = FALSE
  /\ result = NoResult
  /\ FetchIdle
  /\ StockIdle
  /\ LocIdle
  /\ ConcIdle

\* lines 185-219: the command runs over its list
AdjustInventory ==
  /\ pc = "idle"
  /\ LET r == adjust_inventory(qty, req.updates, req.fail, req.text)
     IN /\ qty' = r.qty
        /\ result' = IF r.ok THEN AdjustCompleted ELSE Err(r.err)
  /\ pc' = "done"
  /\ UNCHANGED <<fetchVars, stockVars, locVars, concVars, productStatus, logs, req, pre, pre_status,
                 calls, to_err, status_changed, current_product_status,
                 had_zero_inventory>>

AdjustNext == AdjustInventory

AdjustSpec == AdjustInit /\ [][AdjustNext]_vars

(* ======= a decrease running at the same time as a transfer ============= *)
\* a transfer has been invoked and has not returned
TransferRunning == req.op = "transfer" /\ pc \notin {"idle", "done"}

\* lines 304-330: decrease_inventory_with_logging is invoked while another
\* command may be running
OtherDecreaseStart ==
  /\ other_pc = "idle"
  /\ other_calls = <<>>
  /\ \E item \in InventoryItems, loc \in LocationIds :
       /\ CanTake(item, loc)
       /\ other_req' = [op |-> "decrease", inventory_item_id |-> item,
                        location_id |-> loc]
  /\ other_pc' = "d_adjust"
  /\ UNCHANGED <<other_calls, invVars, fetchVars, stockVars, locVars>>

\* lines 321-330: adjust_inventory(...).await?
OtherDecreaseAdjust ==
  /\ other_pc = "d_adjust"
  /\ \E fail \in 0..1 :
       LET update == InventoryUpdate(other_req.inventory_item_id,
                                     other_req.location_id, 0 - 1)
           res == adjust_inventory(qty, <<update>>, fail, AllErrTexts[1])
       IN /\ qty' = res.qty
          /\ other_calls' = other_calls
          /\ other_pc' = IF res.ok THEN "d_check" ELSE "done"
  /\ UNCHANGED <<other_req, productStatus, logs, pc, req, pre, pre_status, calls,
                 to_err, status_changed, current_product_status,
                 had_zero_inventory, result, fetchVars, stockVars, locVars>>

\* lines 332-338: has_zero_inventory_across_all_locations(...).await?
OtherDecreaseCheck ==
  /\ other_pc = "d_check"
  /\ \E ok \in BOOLEAN :
       LET has_zero_inventory == ok /\ has_zero_inventory_across_all_locations(qty)
       IN /\ other_calls' = Append(other_calls,
               [call |-> "check", ok |-> ok, zero |-> has_zero_inventory,
                during |-> TransferRunning])
          /\ other_pc' = IF ~ok THEN "done"
                         ELSE IF has_zero_inventory THEN "d_status" ELSE "d_log"
  /\ UNCHANGED <<other_req, invVars, fetchVars, stockVars, locVars>>

\* lines 338-351: update_product_status(.., "draft")
OtherDecreaseStatus ==
  /\ other_pc = "d_status"
  /\ \E ok \in BOOLEAN :
       /\ productStatus' = update_product_status(productStatus, "draft", ok)
       /\ other_calls' = Append(other_calls,
            [call |-> "update_status", ok |-> ok, status |-> "draft",
             during |-> TransferRunning])
  /\ other_pc' = "d_log"
  /\ UNCHANGED <<other_req, qty, logs, pc, req, pre, pre_status, calls, to_err,
                 status_changed, current_product_status, had_zero_inventory,
                 result, fetchVars, stockVars, locVars>>

\* lines 353-392: firebase_client.create_log(log_entry).await? then Ok(..)
OtherDecreaseLog ==
  /\ other_pc = "d_log"
  /\ other_calls' = other_calls
  /\ other_pc' = "done"
  /\ UNCHANGED <<other_req, invVars, fetchVars, stockVars, locVars>>

ConcNext ==
  \/ TransferStart
  \/ TransferDecrease
  \/ TransferIncrease
  \/ TransferRollback
  \/ TransferLogSource
  \/ TransferLogDest
  \/ TransferCheck
  \/ TransferStatus
  \/ OtherDecreaseStart
  \/ OtherDecreaseAdjust
  \/ OtherDecreaseCheck
  \/ OtherDecreaseStatus
  \/ OtherDecreaseLog

ConcSpec == Init /\ [][ConcNext]_vars

(* ======================= properties of the transfer ==================== *)
\* positions of the calls of a given kind in the running command's trace
CallsOf(kind) == { i \in 1..Len(calls) : calls[i].call = kind }

\* the request satisfies TransferRequest's invariant
DistinctLocations == req.from_location_id /= req.to_location_id

\* both adjustments of the running transfer succeeded
TransferCommitted ==
  /\ req.op = "transfer"
  /\ Len(calls) >= 2
  /\ calls[1].ok
  /\ calls[2].ok

\* the destination increment failed and the compensation succeeded
TransferRolledBack ==
  /\ req.op = "transfer"
  /\ Len(calls) = 3
  /\ calls[1].ok
  /\ ~calls[2].ok
  /\ calls[3].ok

\* the destination increment failed and so did the compensation
TransferUnrecoverable ==
  /\ req.op = "transfer"
  /\ Len(calls) = 3
  /\ calls[1].ok
  /\ ~calls[2].ok
  /\ ~calls[3].ok

RECURSIVE SumOver(_, _)
SumOver(q, keys) ==
  IF keys = {} THEN 0
  ELSE LET k == CHOOSE x \in keys : TRUE IN q[k] + SumOver(q, keys \ {k})

TotalInventory(q) == SumOver(q, DOMAIN q)

NoPositiveLevel(q) == \A k \in DOMAIN q : q[k] <= 0

\* C1: in a committed transfer the adjustments applied are exactly -1 at
\* from_location_id and +1 at to_location_id of the same inventory item, so
\* the item's quantities over the two locations sum to the pre-transfer sum.
C1_CommittedNetZero ==
  TransferCommitted =>
    LET item == req.inventory_item_id
        f == <<item, req.from_location_id>>
        t == <<item, req.to_location_id>>
        moved == [[pre EXCEPT ![f] = @ - 1] EXCEPT ![t] = @ + 1]
    IN /\ qty = moved
       /\ qty[f] + qty[t] = pre[f] + pre[t]
       /\ CallsOf("adjust") = {1, 2}
       /\ calls[1].item = item /\ calls[1].location = req.from_location_id
       /\ calls[1].delta = 0 - 1
       /\ calls[2].item = item /\ calls[2].location = req.to_location_id
       /\ calls[2].delta = 1

C1_Witness ==
  /\ TransferCommitted
  /\ pc = "done"
  /\ result.ok
  /\ DistinctLocations
  /\ qty /= pre

\* C2: in the rolled-back outcome the source level equals its pre-transfer
\* value, the destination is unchanged, and the error returned is the
\* destination error alone: no critical marker, no rollback error.
C2_RolledBackRestores ==
  (TransferRolledBack /\ pc = "done") =>
    /\ qty = pre
    /\ ~result.ok
    /\ result.message =
         <<"Errore nell'aggiunta a ", req.to_location, ": ">> \o calls[2].err
    /\ ~Contains(result.message, <<CriticalMarker>>)
    /\ ~Contains(result.message, <<", Rollback: ">>)

C2_Witness ==
  /\ TransferRolledBack
  /\ pc = "done"
  /\ DistinctLocations
  /\ calls[3].call = "adjust"

\* C3: in the unrecoverable outcome the error returned contains both the
\* destination error text and the rollback error text.
C3_UnrecoverableBothErrors ==
  (TransferUnrecoverable /\ pc = "done") =>
    /\ ~result.ok
    /\ Contains(result.message, calls[2].err)
    /\ Contains(result.message, calls[3].err)
    /\ Contains(result.message, <<CriticalMarker>>)

C3_Witness ==
  /\ TransferUnrecoverable
  /\ pc = "done"
  /\ calls[2].err /= calls[3].err

\* C4: the decrement at from_location_id is the first call and is resolved
\* before anything else; the increment at to_location_id is issued only
\* after it succeeded; a failed decrement returns the removal error and no
\* other remote call is issued.
C4_DecrementFirst ==
  (req.op = "transfer" /\ Len(calls) >= 1) =>
    /\ calls[1].call = "adjust"
    /\ calls[1].location = req.from_location_id
    /\ calls[1].delta = 0 - 1
    /\ Len(calls) >= 2 =>
         /\ calls[1].ok
         /\ calls[2].call = "adjust"
         /\ calls[2].location = req.to_location_id
         /\ calls[2].delta = 1
    /\ ~calls[1].ok =>
         /\ Len(calls) = 1
         /\ pc = "done"
         /\ ~result.ok
         /\ result.message =
              <<"Errore nella rimozione da ", req.from_location, ": ">>
                \o calls[1].err
         /\ qty = pre
         /\ logs = <<>>

C4_Witness ==
  /\ req.op = "transfer"
  /\ Len(calls) = 1
  /\ ~calls[1].ok
  /\ pc = "done"

\* C5: once both adjustments succeeded the transfer returns the success
\* result whatever the zero-inventory check and the status update do
\* (stated for requests between two distinct locations).
C5_CommittedAlwaysSuccess ==
  (TransferCommitted /\ DistinctLocations /\ pc = "done") => result.ok

\* C6: in a committed transfer a failed source or destination audit record
\* leaves the outcome a success, and the destination record is attempted
\* after the source record failed (requests between two distinct locations).
C6_AuditFailureKeepsSuccess ==
  ( /\ TransferCommitted
    /\ DistinctLocations
    /\ \E i \in CallsOf("create_log") : ~calls[i].ok ) =>
    /\ pc = "done" => result.ok
    /\ (Len(calls) >= 4 /\ ~calls[3].ok) => calls[4].call = "create_log"

\* C7: a committed transfer attempts exactly two audit records, source then
\* destination: (from_location, -1) and (to_location, +1), both of type
\* Trasferimento with the request's product id, variant and inventory item.
C7_TwoAuditRecords ==
  (TransferCommitted /\ pc \in {"t_check", "t_status", "done"}) =>
    /\ CallsOf("create_log") = {3, 4}
    /\ LET src == calls[3].entry
           dst == calls[4].entry
       IN /\ src.request_type = "Trasferimento"
          /\ dst.request_type = "Trasferimento"
          /\ src.data.negozio = req.from_location
          /\ dst.data.negozio = req.to_location
          /\ src.data.rettifica = 0 - 1
          /\ dst.data.rettifica = 1
          /\ src.data.rettifica + dst.data.rettifica = 0
          /\ src.data.id = req.product_id /\ dst.data.id = req.product_id
          /\ src.data.variant = req.variant_title
          /\ dst.data.variant = req.variant_title
          /\ src.data.inventory_item_id = req.inventory_item_id
          /\ dst.data.inventory_item_id = req.inventory_item_id

C7_Witness ==
  /\ TransferCommitted
  /\ pc = "done"
  /\ Len(logs) = 2
  /\ DistinctLocations

\* C8 as stated: a committed transfer triggers the draft update and
\* reports to_draft exactly when the levels of all variants at all
\* locations sum to zero at the post-commit check (requests between two
\* distinct locations).
C8_DraftIffTotalZero ==
  (TransferCommitted /\ DistinctLocations /\ pc = "done") =>
    LET reported == result.ok /\ result.status_changed = "to_draft"
        triggered == CallsOf("update_status") /= {}
    IN /\ (triggered /\ reported) <=> (TotalInventory(qty) = 0)
       /\ ~reported => result.status_changed = "none"

\* C8 amended: the draft update is triggered exactly when the post-commit
\* check succeeded and found no level above zero; a transfer that returns
\* success reports to_draft exactly in that case, otherwise no status change.
C8_DraftIffNoPositiveLevel ==
  (TransferCommitted /\ pc = "done") =>
    LET checked == \E i \in CallsOf("check") : calls[i].ok
        triggered == CallsOf("update_status") /= {}
    IN /\ triggered <=> (checked /\ NoPositiveLevel(qty))
       /\ \A i \in CallsOf("update_status") : calls[i].status = "draft"
       /\ result.ok =>
            /\ (result.status_changed = "to_draft")
                 <=> (checked /\ NoPositiveLevel(qty))
            /\ result.status_changed \in {"to_draft", "none"}
       /\ (result.ok /\ result.status_changed = "to_draft")
            => productStatus = "draft"

C8_Witness ==
  /\ TransferCommitted
  /\ pc = "done"
  /\ result.ok
  /\ result.status_changed = "to_draft"
  /\ DistinctLocations
  /\ TotalInventory(qty) < 0

\* C9: a request with from_location_id = to_location_id gets no adjustment.
C9_NoAdjustmentSameLocation ==
  (req.op = "transfer" /\ req.from_location_id = req.to_location_id) =>
    CallsOf("adjust") = {}

\* C10: in decrease and undo, a failed audit-log creation after a successful
\* adjustment still returns the success result.
C10_LogFailureNonFatal ==
  ( /\ req.op \in {"decrease", "undo"}
    /\ pc = "done"
    /\ \E i \in CallsOf("adjust") : calls[i].ok
    /\ \E i \in CallsOf("create_log") : ~calls[i].ok ) => result.ok

\* C11: every inventory change is logged: once decrease / undo has applied
\* its -1 / +1, it goes on to attempt the matching audit record (Rettifica
\* with -1, Annullamento with +1) whatever the zero-inventory check and the
\* status update do in between.
C11_EveryChangeLogged ==
  ( /\ req.op \in {"decrease", "undo"}
    /\ pc = "done"
    /\ \E i \in CallsOf("adjust") : calls[i].ok ) =>
    \E i \in CallsOf("adjust") : \E j \in CallsOf("create_log") :
       /\ i < j
       /\ calls[j].entry.request_type =
            (IF req.op = "decrease" THEN "Rettifica" ELSE "Annullamento")
       /\ calls[j].entry.data.rettifica = calls[i].delta
       /\ calls[j].entry.data.inventory_item_id = calls[i].item

(* ======================= properties of the fetch ======================= *)
\* the fetch has returned Ok
FetchReturnedOk == fetch_pc = "done" /\ ~fetch_result.pending /\ fetch_result.ok

\* how often x occurs in seq
Occurrences(seq, x) == Cardinality({i \in DOMAIN seq : seq[i] = x})

\* index of the first page without items, or one past the last page
FirstEmptyPage ==
  IF \E k \in DOMAIN server_pages : server_pages[k] = <<>>
  THEN CHOOSE k \in DOMAIN server_pages :
         /\ server_pages[k] = <<>>
         /\ \A h \in 1..(k - 1) : server_pages[h] /= <<>>
  ELSE Len(server_pages) + 1

\* number of items of the pages 1..n
RECURSIVE ItemsUpTo(_)
ItemsUpTo(n) == IF n = 0 THEN 0 ELSE Len(server_pages[n]) + ItemsUpTo(n - 1)

\* C12 (as stated): a fetch whose requests all succeed returns every item of
\* every page exactly once: T items, no duplicates, no gaps, whatever the
\* sizes of the pages.
C12_AllItemsExactlyOnce ==
  FetchReturnedOk =>
    /\ Len(fetch_result.products) = ItemsUpTo(Len(server_pages))
    /\ \A k \in DOMAIN server_pages : \A j \in DOMAIN server_pages[k] :
         Occurrences(fetch_result.products, server_pages[k][j]) = 1

\* C12 (amended): a fetch whose requests all succeed returns exactly the
\* items of the pages that precede the first empty page, each exactly once;
\* when no page is empty that is every item of every page.
C12_ItemsBeforeFirstEmptyOnce ==
  FetchReturnedOk =>
    /\ Len(fetch_result.products) = ItemsUpTo(FirstEmptyPage - 1)
    /\ \A k \in DOMAIN server_pages : \A j \in DOMAIN server_pages[k] :
         Occurrences(fetch_result.products, server_pages[k][j]) =
           (IF k < FirstEmptyPage THEN 1 ELSE 0)

C12_Witness ==
  /\ FetchReturnedOk
  /\ Len(server_pages) = MaxPages
  /\ FirstEmptyPage = MaxPages + 1
  /\ Len(fetch_result.products) > MaxPages

\* item a is listed by the server before item b
ServerBefore(a, b) == a[1] < b[1] \/ (a[1] = b[1] /\ a[2] < b[2])

\* C13: the items of a successful fetch are in server order: pages in the
\* order of the cursor chain, items of a page in the order the page lists them.
C13_ServerOrder ==
  FetchReturnedOk =>
    \A i, j \in DOMAIN fetch_result.products :
      i < j => ServerBefore(fetch_result.products[i], fetch_result.products[j])

C13_Witness ==
  /\ FetchReturnedOk
  /\ Len(fetch_requests) >= 2
  /\ \E i, j \in DOMAIN fetch_result.products :
       /\ i < j
       /\ fetch_result.products[i][1] < fetch_result.products[j][1]
  /\ \E i, j \in DOMAIN fetch_result.products :
       /\ i < j
       /\ fetch_result.products[i][1] = fetch_result.products[j][1]

\* C14: a failed page request is the last request of the fetch, and the fetch
\* has returned an error that carries none of the items fetched before it.
C14_FailFastNoPartial ==
  \A i \in DOMAIN fetch_requests :
    ~fetch_requests[i].ok =>
      /\ i = Len(fetch_requests)
      /\ fetch_pc = "done"
      /\ ~fetch_result.pending
      /\ ~fetch_result.ok
      /\ fetch_result.products = <<>>
      /\ fetch_result.err /= <<>>

C14_Witness ==
  /\ fetch_pc = "done"
  /\ ~fetch_result.ok
  /\ Len(fetch_requests) >= 2
  /\ fetch_requests[1].ok
  /\ fetch_requests[1].count > 0
  /\ ~fetch_requests[Len(fetch_requests)].ok

\* the loop stops exactly at a response without items or without next cursor
StopRule ==
  \A i \in DOMAIN fetch_requests :
    fetch_requests[i].ok =>
      IF fetch_requests[i].count = 0 \/ fetch_requests[i].next = None
      THEN i = Len(fetch_requests) /\ fetch_pc = "done" /\ fetch_result.ok
      ELSE i = Len(fetch_requests) => fetch_pc = "loop"

\* C15: the loop stops as soon as a batch has no items or a response has no
\* next cursor and otherwise goes on to the next batch, and the fetch
\* eventually returns.
C15_StopsAndReturns == [](StopRule) /\ <>(fetch_pc = "done")

C15_Witness ==
  /\ FetchReturnedOk
  /\ Len(fetch_requests) >= 2
  /\ fetch_requests[Len(fetch_requests)].count = 0
  /\ fetch_requests[Len(fetch_requests)].next /= None

Filtered ==
  scan_pc \in {"updating", "summary"} \/ (scan_pc = "done" /\ scan_result.ok)

\* product i of the catalog is active and no variant of it has a positive level
OutOfStock(i) ==
  /\ catalog[i].status = "active"
  /\ \A v \in DOMAIN catalog[i].variants : catalog[i].variants[v] <= 0

\* catalog position of the k-th out-of-stock product
SourceIndex(k) ==
  CHOOSE i \in DOMAIN catalog :
    /\ OutOfStock(i)
    /\ Cardinality({h \in 1..i : OutOfStock(h)}) = k

\* C17: the filter's output is, in input order, exactly the active products
\* without a positive-level variant (so an active product with no variants is
\* in, a non-active product or one with a positive level never is).
C17_FilterExact ==
  Filtered =>
    /\ Len(products_with_no_stock) =
         Cardinality({i \in DOMAIN catalog : OutOfStock(i)})
    /\ \A k \in DOMAIN products_with_no_stock :
         /\ products_with_no_stock[k].id = to_string(catalog[SourceIndex(k)].id)
         /\ products_with_no_stock[k].title = catalog[SourceIndex(k)].title
         /\ products_with_no_stock[k].status = "active"

C17_Witness ==
  /\ Filtered
  /\ Len(catalog) = 2
  /\ catalog[1].status = "active"
  /\ catalog[1].variants = <<0, 1>>
  /\ catalog[2].status = "active"
  /\ catalog[2].variants = <<>>
  /\ Len(products_with_no_stock) = 1
  /\ products_with_no_stock[1].title = catalog[2].title

\* C18: a candidate is marked excluded exactly when the id of its product is
\* in the fixed exclusion list, whatever its title and variants.
C18_ExcludedIffListed ==
  Filtered =>
    \A k \in DOMAIN products_with_no_stock :
      products_with_no_stock[k].is_excluded <=>
        catalog[SourceIndex(k)].id \in EXCLUDED_PRODUCT_IDS

C18_Witness ==
  /\ Filtered
  /\ Len(products_with_no_stock) = 2
  /\ products_with_no_stock[1].is_excluded
  /\ ~products_with_no_stock[2].is_excluded
  /\ catalog[1].title = catalog[2].title
  /\ catalog[1].variants = catalog[2].variants

\* number of the candidates 1..k that are not excluded
Eligible(k) ==
  Cardinality({j \in 1..k : ~products_with_no_stock[j].is_excluded})

\* C19: the updater sends one status update, to "draft", for each candidate
\* that is not excluded and none for an excluded one; an excluded candidate's
\* outcome has success = true and a note in its error field.
C19_OneRequestPerEligible ==
  /\ Len(status_requests) = Eligible(index)
  /\ \A r \in DOMAIN status_requests :
       /\ status_requests[r].status = "draft"
       /\ status_requests[r].product_id \notin EXCLUDED_PRODUCT_IDS
  /\ \A k \in 1..index :
       IF products_with_no_stock[k].is_excluded
       THEN /\ update_results[k].success
            /\ update_results[k].error = Some(<<"Excluded from updates">>)
       ELSE to_string(status_requests[Eligible(k)].product_id) =
              products_with_no_stock[k].id

C19_Witness ==
  /\ scan_pc = "summary"
  /\ index = 2
  /\ products_with_no_stock[1].is_excluded
  /\ ~products_with_no_stock[2].is_excluded
  /\ Len(status_requests) = 1

\* C20: the updater never aborts: every candidate gets one outcome, in input
\* order; a failed update gives success = false with the error, the later
\* candidates are still processed and the updater's caller goes on.
C20_NeverAborts ==
  /\ Len(update_results) = index
  /\ \A k \in 1..index :
       /\ update_results[k].product_id = products_with_no_stock[k].id
       /\ update_results[k].title = products_with_no_stock[k].title
       /\ ~products_with_no_stock[k].is_excluded =>
            IF status_requests[Eligible(k)].ok
            THEN update_results[k].success /\ update_results[k].error = None
            ELSE /\ ~update_results[k].success
                 /\ update_results[k].error /= None
                 /\ update_results[k].error[1] /= <<>>
  /\ (scan_pc \in {"summary", "done"} /\ status_requests /= <<>>) =>
       index = Len(products_with_no_stock)
  /\ (scan_pc = "done" /\ status_requests /= <<>>) =>
       /\ scan_result.ok
       /\ Len(scan_result.update_results) = Len(products_with_no_stock)

C20_Witness ==
  /\ scan_pc = "done"
  /\ scan_result.ok
  /\ Len(status_requests) = 2
  /\ ~status_requests[1].ok
  /\ status_requests[2].ok
  /\ ~scan_result.update_results[1].success
  /\ scan_result.update_results[2].success

\* the scan has returned Ok
ScanReturnedOk == scan_pc = "done" /\ ~scan_result.pending /\ scan_result.ok

\* C21: the summary of a live scan has eligible_count = total_found -
\* excluded_count and successful_updates + failed_updates = eligible_count;
\* an excluded candidate is in neither tally though its outcome has
\* success = true.
C21_SummaryTallies ==
  (ScanReturnedOk /\ ~dry_run) =>
    /\ scan_result.summary.total_found = Len(scan_result.products_found)
    /\ scan_result.summary.excluded_count =
         Cardinality({k \in DOMAIN scan_result.products_found :
                        scan_result.products_found[k].is_excluded})
    /\ scan_result.summary.eligible_count =
         scan_result.summary.total_found - scan_result.summary.excluded_count
    /\ scan_result.summary.successful_updates + scan_result.summary.failed_updates =
         scan_result.summary.eligible_count

C21_Witness ==
  /\ ScanReturnedOk
  /\ ~dry_run
  /\ scan_result.summary.total_found = 2
  /\ scan_result.summary.excluded_count = 1
  /\ scan_result.summary.failed_updates = 1
  /\ \E k \in DOMAIN scan_result.update_results :
       /\ scan_result.products_found[k].is_excluded
       /\ scan_result.update_results[k].success

\* C22: a dry-run scan sends no status update and returns no update
\* outcomes (so both tallies are 0), yet reports every candidate, with its
\* is_excluded tag, in products_found.
C22_DryRunNoMutation ==
  dry_run =>
    /\ status_requests = <<>>
    /\ update_results = <<>>
    /\ ScanReturnedOk =>
         /\ scan_result.update_results = <<>>
         /\ scan_result.summary.successful_updates = 0
         /\ scan_result.summary.failed_updates = 0
         /\ Len(scan_result.products_found) =
              Cardinality({i \in DOMAIN catalog : OutOfStock(i)})
         /\ \A k \in DOMAIN scan_result.products_found :
              /\ scan_result.products_found[k].id =
                   to_string(catalog[SourceIndex(k)].id)
              /\ scan_result.products_found[k].is_excluded =
                   (catalog[SourceIndex(k)].id \in EXCLUDED_PRODUCT_IDS)

C22_Witness ==
  /\ dry_run
  /\ ScanReturnedOk
  /\ Len(scan_result.products_found) = 2
  /\ scan_result.products_found[1].is_excluded
  /\ ~scan_result.products_found[2].is_excluded
  /\ scan_result.summary.eligible_count = 1

\* C23: the process exits with 1 only when the configuration fails to load
\* (then no scan was started, so no remote request was sent) or when the
\* catalog fetch fails; once the fetch has succeeded it exits with 0 however
\* many status updates failed.
C23_ExitCodeProcessLevel ==
  /\ exit_code = Some(1) =>
       \/ /\ ~config_ok
          /\ scan_result.pending
          /\ status_requests = <<>>
          /\ products_with_no_stock = <<>>
       \/ /\ config_ok
          /\ ~scan_result.pending
          /\ ~scan_result.ok
          /\ status_requests = <<>>
  /\ (exit_code /= None /\ ~scan_result.pending /\ scan_result.ok) =>
       exit_code = Some(0)
  /\ (exit_code /= None /\ ~config_ok) => exit_code = Some(1)

C23_Witness ==
  /\ exit_code = Some(0)
  /\ scan_result.ok
  /\ scan_result.summary.failed_updates = 2

(* ================== properties of the persisted location =============== *)
\* get_app_location has returned after finding no location file
GetFoundNoFile ==
  /\ get_pc = "done"
  /\ ~get_result.pending
  /\ get_content = <<>>
  /\ location_file = None

\* C24 (as stated): with no location file, get_app_location reports the
\* location as unset and returns no error.
C24_AbsentIsNotAnError == GetFoundNoFile => get_result.ok

\* get_app_location has read the file while set_app_location was replacing a
\* file that held a location, and the read itself did not fail
GetReadDuringSet ==
  /\ get_pc = "done"
  /\ get_during_set
  /\ set_old /= None
  /\ get_result.err /= <<"Failed to read location file: ">>

\* C25 (as stated): a get_app_location concurrent with set_app_location(new)
\* over a file holding old returns old or new, never an error and never a
\* partly written value.
C25_GetSeesOldOrNew ==
  GetReadDuringSet =>
    /\ get_result.ok
    /\ get_result.value \in {from_str(set_old[1]).location, set_location}
    /\ get_content \in {set_old[1], to_string_pretty(set_location)}

(* ====================== properties of adjust_inventory ================= *)
\* sum of the adjustments that the updates 1..n of the list make to one level
RECURSIVE AdjustmentsTo(_, _, _)
AdjustmentsTo(key, updates, n) ==
  IF n = 0 THEN 0
  ELSE AdjustmentsTo(key, updates, n - 1) +
       (IF <<updates[n].variant_id, updates[n].location_id>> = key
        THEN updates[n].adjustment ELSE 0)

\* number of updates that took effect: all, or those before the rejected one
AppliedCount == IF req.fail = 0 THEN Len(req.updates) ELSE req.fail - 1

\* C30: adjust_inventory applies its updates in list order and stops at the
\* first rejected one: it then returns an error, the updates before it stay
\* applied, none after it is applied; it returns success only when every
\* update went through.
C30_StopsAtFirstFailure ==
  pc = "done" =>
    /\ \A key \in InventoryItems \X LocationIds :
         qty[key] = pre[key] + AdjustmentsTo(key, req.updates, AppliedCount)
    /\ result.ok <=> req.fail = 0
    /\ ~result.ok => result.message = AdjustError(req.text)

C30_Witness ==
  /\ pc = "done"
  /\ Len(req.updates) = 2
  /\ req.fail = 2
  /\ req.updates[1].adjustment = 1
  /\ req.updates[2].adjustment = 1
  /\ ~result.ok
  /\ qty /= pre

(* ================= further properties of the transfer ================== *)
\* C27: a transfer attempts an audit record only after both adjustments
\* succeeded: in every other outcome (removal failed, rolled back,
\* unrecoverable) no audit record is created and no status update is issued.
C27_NoAuditUnlessCommitted ==
  (req.op = "transfer" /\ ~TransferCommitted) =>
    /\ CallsOf("create_log") = {}
    /\ CallsOf("update_status") = {}
    /\ CallsOf("check") = {}
    /\ logs = <<>>

C27_Witness ==
  /\ TransferUnrecoverable
  /\ pc = "done"
  /\ DistinctLocations
  /\ logs = <<>>
  /\ Len(calls) = 3

\* C28 (as stated): in the unrecoverable outcome only the source decrement
\* took effect: the source is one unit below its pre-transfer level, the
\* destination is unchanged, and the compensation was attempted exactly once.
C28_UnrecoverableOnlyDecrement ==
  (TransferUnrecoverable /\ pc = "done") =>
    /\ qty[<<req.inventory_item_id, req.from_location_id>>] =
         pre[<<req.inventory_item_id, req.from_location_id>>] - 1
    /\ qty[<<req.inventory_item_id, req.to_location_id>>] =
         pre[<<req.inventory_item_id, req.to_location_id>>]
    /\ \A key \in DOMAIN qty :
         key[1] /= req.inventory_item_id => qty[key] = pre[key]
    /\ CallsOf("adjust") = {1, 2, 3}
    /\ calls[3].location = req.from_location_id
    /\ calls[3].delta = 1

\* the same for requests between two distinct locations
C28_DistinctLocationsCase ==
  (TransferUnrecoverable /\ pc = "done" /\ DistinctLocations) =>
    /\ qty = [pre EXCEPT ![<<req.inventory_item_id, req.from_location_id>>] = @ - 1]
    /\ CallsOf("adjust") = {1, 2, 3}

(* ============ properties of the status across inventory commands ======= *)
\* the second command read "no stock" while the transfer was running and
\* then set the product to draft
DraftSetDuringTransfer ==
  \E i, j \in DOMAIN other_calls :
    /\ i < j
    /\ other_calls[i].call = "check"
    /\ other_calls[i].ok
    /\ other_calls[i].zero
    /\ other_calls[i].during
    /\ other_calls[j].call = "update_status"
    /\ other_calls[j].status = "draft"
    /\ other_calls[j].ok

\* C26 (as stated): when the product has a positive level both before a
\* transfer started and after it completed, no zero-inventory check made
\* while the transfer ran - one of a concurrent command included - read the
\* product as exhausted and set it to draft (requests between two distinct
\* locations).
C26_NoDraftFromTransientState ==
  ( /\ TransferCommitted
    /\ DistinctLocations
    /\ pc = "done"
    /\ ~NoPositiveLevel(pre)
    /\ ~NoPositiveLevel(qty) ) => ~DraftSetDuringTransfer

\* the product is draft exactly when no level is positive
StatusTracksStock(q, status) == (status = "draft") <=> NoPositiveLevel(q)

\* C29 (as stated): a decrease, undo or transfer that starts with the product
\* draft exactly when no level is positive, and whose remote calls all
\* succeed, ends with the product again draft exactly when no level is
\* positive (requests between two distinct locations).
C29_StatusTracksStockAfterCommand ==
  ( /\ req.op \in {"decrease", "undo", "transfer"}
    /\ pc = "done"
    /\ result.ok
    /\ \A i \in DOMAIN calls : calls[i].ok
    /\ req.op = "transfer" => DistinctLocations
    /\ StatusTracksStock(pre, pre_status) ) => StatusTracksStock(qty, productStatus)

====
